---- MODULE Spec2Model ----
(***************************************************************************)
(* Model of the buffered ingestion writer of arc-client-python:            *)
(* arc_client/ingestion/buffered.py (BufferedWriter, thread variant) and   *)
(* arc_client/ingestion/async_buffered.py (AsyncBufferedWriter), which     *)
(* have the same structure: one lock, released around the sink call.       *)
(*                                                                         *)
(* Every producer (thread or task) runs one call at a time.  A call is cut *)
(* into steps where other producers can interleave: the sink call (Write   *)
(* Sink = write_columnar of the underlying WriteClient), made with the     *)
(* lock released, and in close() the gap between the unlocked read of      *)
(* self._closed and the lock.  Taking the lock, the code run while it is   *)
(* held and its release are one step: the lock is free whenever no step is *)
(* running, so a producer that reaches it takes it at once.                *)
(***************************************************************************)
EXTENDS Integers, Sequences, FiniteSets, TLC

\* ------------------------------------------------------------------ bounds
MaxBatches == 2      \* write / write_columnar calls that reach the buffer
MaxRows == 2         \* rows of one write_columnar call: 1..MaxRows
MaxTime == 1         \* readings of the monotonic clock: 0..MaxTime
MaxMergeBatches == 3 \* SpecMerge: batches pending when flush() is called
MaxMergeRows == 3    \* SpecMerge: rows of one pending batch: 1..MaxMergeRows

Producers == {"p1", "p2"}
Measurements == {"cpu", "mem"}
None == "none"
BatchSizes == {2, 3}
FlushIntervals == {0, 1}

VARIABLES
    buffers,          \* self._buffers: measurement -> sequence of batches
    record_counts,    \* self._record_counts: measurement -> int
    keys,             \* key order of the defaultdict self._buffers
    last_flush_time,  \* self._last_flush_time
    lock,             \* self._lock: None or the producer holding it
    closed,           \* self._closed
    batch_size,       \* self._batch_size
    flush_interval,   \* self._flush_interval
    now,              \* time.monotonic()
    pc,               \* producer -> position in its current call
    call,             \* producer -> the current (or last) call's frame
    sent,             \* history: per measurement, the batches of each sink
                      \*          invocation, in invocation order
    raised,           \* history: the error the sink raised in the step just
                      \*          taken, else None
    last,             \* history: the result of the call that ended in the
                      \*          step just taken ("ok" or the error), else None
    nextBid,          \* history: number of batches buffered so far
    variant,          \* "thread" (BufferedWriter) or "async" (AsyncBufferedWriter)
    result            \* history: the value that the pending_count read made
                      \*          in the step just taken returned, else -1

vars == <<buffers, record_counts, keys, last_flush_time, lock, closed,
          batch_size, flush_interval, now, pc, call, sent, raised, last, nextBid,
          variant, result>>

\* ----------------------------------------------------------------- helpers
Range(s) == {s[i] : i \in 1..Len(s)}

RECURSIVE SumCounts(_, _)
SumCounts(cnts, ms) ==
    IF ms = {} THEN 0
    ELSE LET m == CHOOSE x \in ms : TRUE IN cnts[m] + SumCounts(cnts, ms \ {m})

\* pending_count: sum(self._record_counts.values())
pending_count == SumCounts(record_counts, Measurements)

RECURSIVE Concat(_)
Concat(ss) == IF ss = <<>> THEN <<>> ELSE Head(ss) \o Concat(Tail(ss))

\* The column dicts of a sequence of buffered batches (bid is history only).
Cols(batches) == [i \in 1..Len(batches) |-> batches[i].cols]
Bids(batches) == [i \in 1..Len(batches) |-> batches[i].bid]

\* A row value: the k-th row of the batch buffered as number bid.
Row(bid, k) == <<bid, k>>

\* Mutant of merge_columnar: the batches are concatenated last to first.
merge_columnar_reversed(batches) ==
    IF Len(batches) = 0 THEN <<>>
    ELSE IF Len(batches) = 1 THEN batches[1]
    ELSE LET all_columns == UNION {DOMAIN batches[i] : i \in 1..Len(batches)}
         IN [col_name \in all_columns |->
                Concat([i \in 1..Len(batches) |->
                          LET k == Len(batches) + 1 - i IN
                          IF col_name \in DOMAIN batches[k]
                          THEN batches[k][col_name] ELSE <<>>])]

\* Mutant of merge_columnar: only the columns of the first batch are merged.
merge_columnar_first_columns(batches) ==
    IF Len(batches) = 0 THEN <<>>
    ELSE IF Len(batches) = 1 THEN batches[1]
    ELSE [col_name \in DOMAIN batches[1] |->
                Concat([i \in 1..Len(batches) |->
                          IF col_name \in DOMAIN batches[i]
                          THEN batches[i][col_name] ELSE <<>>])]

\* _merge_columnar: {} for no batch, the batch itself for one batch, else the
\* union of the column names, each column the concatenation in batch order of
\* the values of the batches that have it.
merge_columnar(batches) ==
    IF Len(batches) = 0 THEN <<>>
    ELSE IF Len(batches) = 1 THEN batches[1]
    ELSE LET all_columns == UNION {DOMAIN batches[i] : i \in 1..Len(batches)}
         IN [col_name \in all_columns |->
                Concat([i \in 1..Len(batches) |->
                          IF col_name \in DOMAIN batches[i]
                          THEN batches[i][col_name] ELSE <<>>])]

\* ------------------------------------------------------------------ inputs
\* write(record): the record's measurement ("" = missing or empty), whether
\* fields is non-empty, whether it has tags.  The timestamp and the values
\* are the row's identity.
Records ==
    [measurement : Measurements \cup {""}, fields : BOOLEAN, tags : {FALSE}]

\* columns built by write(): {"time": [ts], field: [v], tag: [v]}
RecordColumns(record, bid) ==
    LET names == {"time"} \cup (IF record.fields THEN {"usage"} ELSE {})
                          \cup (IF record.tags THEN {"host"} ELSE {})
    IN [c \in names |-> <<Row(bid, 1)>>]

\* write_columnar(measurement, columns): the column sets and row counts
\* offered; the empty column set is the empty dict.
ColumnSets == {{}, {"time", "usage"}}
ColumnarInputs(bid) ==
    {[c \in cs |-> [k \in 1..n |-> Row(bid, k)]] :
        cs \in ColumnSets, n \in 1..MaxRows}

\* len(next(iter(columns.values()))): the first column is "time".
num_records(columns) == Len(columns["time"])

\* ------------------------------------------------------------------- state
IdleFrame ==
    [op |-> None,          \* "write", "write_columnar", "flush", "close"
     cont |-> None,        \* where _flush_measurement returns to
     todo |-> <<>>,        \* rest of the measurements snapshot of _flush_all
     fm |-> None,          \* measurement of the sink call in progress
     merged |-> <<>>,      \* the columns passed to the sink call in progress
     inv |-> 0,            \* history: index in sent[fm] of that sink call
     elapsed |-> FALSE,    \* history: interval had elapsed when rows were buffered
     alone |-> TRUE,       \* history: no other producer ran during this call
     first |-> FALSE,      \* history: no sink call was made before this call
     arg |-> [m |-> None, names |-> {}, n |-> 0],
                           \* SpecLock: measurement, column names and rows
                           \*           of the batch being written
     error |-> None,       \* SpecLock: what the sink call ended with
     clk |-> <<>>,         \* SpecCall: the clock readings of the call
     outs |-> <<>>]        \* SpecCall: the outcomes of its sink calls

Init ==
    /\ buffers = [m \in Measurements |-> <<>>]
    /\ record_counts = [m \in Measurements |-> 0]
    /\ keys = <<>>
    /\ now = 0
    /\ last_flush_time = 0
    /\ lock = None
    /\ closed = FALSE
    /\ batch_size \in BatchSizes
    /\ flush_interval \in FlushIntervals
    /\ pc = [t \in Producers |-> "idle"]
    /\ call = [t \in Producers |-> IdleFrame]
    /\ sent = [m \in Measurements |-> <<>>]
    /\ raised = None
    /\ last = None
    /\ nextBid = 0
    /\ variant = "thread"
    /\ result = -1

\* The writer's fields that the code under the lock reads and writes.
Writer ==
    [buffers |-> buffers, record_counts |-> record_counts, keys |-> keys,
     last_flush_time |-> last_flush_time, closed |-> closed]

\* The frame a call starts with.
NewFrame(t, op) ==
    [IdleFrame EXCEPT
       !.op = op,
       !.alone = (\A v \in Producers \ {t} : pc[v] = "idle"),
       !.first = (\A m \in Measurements : sent[m] = <<>>)]

\* Producer t's frame becomes fr.  When this step starts t's call (t was
\* idle), the producers in the middle of a call are no longer alone.
SetFrame(t, fr) ==
    call' = [u \in Producers |->
               IF u = t THEN fr
               ELSE IF pc[t] = "idle" /\ pc[u] # "idle"
                    THEN [call[u] EXCEPT !.alone = FALSE]
               ELSE call[u]]

\* The call of producer t returns (res = "ok") or raises (res = the error):
\* leaving the `with self._lock` block releases the lock.
EndCall(t, fr, w, res) ==
    /\ buffers' = w.buffers
    /\ record_counts' = w.record_counts
    /\ keys' = w.keys
    /\ last_flush_time' = w.last_flush_time
    /\ closed' = w.closed
    /\ lock' = None
    /\ pc' = [pc EXCEPT ![t] = "idle"]
    /\ SetFrame(t, IdleFrame)
    /\ last' = res
    /\ sent' = sent

\* close(), lines 200-201: after _flush_all returned, self._closed = True.
\* write, write_columnar and flush just leave the with block.
Return(t, fr, w) ==
    IF fr.op = "close"
    THEN EndCall(t, fr, [w EXCEPT !.closed = TRUE], "ok")
    ELSE EndCall(t, fr, w, "ok")

\* Mutant of begin_sink_call: the lock is held across the sink call.
begin_sink_call_locked(t, fr, w, m, cont, todo) ==
    LET merged == merge_columnar(Cols(w.buffers[m])) IN
    /\ buffers' = [w.buffers EXCEPT ![m] = <<>>]
    /\ record_counts' = [w.record_counts EXCEPT ![m] = 0]
    /\ keys' = w.keys
    /\ last_flush_time' = w.last_flush_time
    /\ closed' = w.closed
    /\ lock' = t
    /\ pc' = [pc EXCEPT ![t] = "sink"]
    /\ sent' = [sent EXCEPT ![m] = Append(@, Bids(w.buffers[m]))]
    /\ last' = None
    /\ SetFrame(t, [fr EXCEPT !.cont = cont, !.todo = todo, !.fm = m,
                              !.merged = merged, !.inv = Len(sent[m]) + 1])

\* Mutant of begin_sink_call: the buffer is cleared, the count is not reset.
begin_sink_call_keeps_count(t, fr, w, m, cont, todo) ==
    LET merged == merge_columnar(Cols(w.buffers[m])) IN
    /\ buffers' = [w.buffers EXCEPT ![m] = <<>>]
    /\ record_counts' = w.record_counts
    /\ keys' = w.keys
    /\ last_flush_time' = w.last_flush_time
    /\ closed' = w.closed
    /\ lock' = None
    /\ pc' = [pc EXCEPT ![t] = "sink"]
    /\ sent' = [sent EXCEPT ![m] = Append(@, Bids(w.buffers[m]))]
    /\ last' = None
    /\ SetFrame(t, [fr EXCEPT !.cont = cont, !.todo = todo, !.fm = m,
                              !.merged = merged, !.inv = Len(sent[m]) + 1])

\* Mutant of begin_sink_call: the count is reset, the buffer is not replaced.
begin_sink_call_keeps_buffer(t, fr, w, m, cont, todo) ==
    LET merged == merge_columnar(Cols(w.buffers[m])) IN
    /\ buffers' = w.buffers
    /\ record_counts' = [w.record_counts EXCEPT ![m] = 0]
    /\ keys' = w.keys
    /\ last_flush_time' = w.last_flush_time
    /\ closed' = w.closed
    /\ lock' = None
    /\ pc' = [pc EXCEPT ![t] = "sink"]
    /\ sent' = [sent EXCEPT ![m] = Append(@, Bids(w.buffers[m]))]
    /\ last' = None
    /\ SetFrame(t, [fr EXCEPT !.cont = cont, !.todo = todo, !.fm = m,
                              !.merged = merged, !.inv = Len(sent[m]) + 1])

\* Mutant of begin_sink_call: the buffer and the count are not cleared.
begin_sink_call_keeps(t, fr, w, m, cont, todo) ==
    LET merged == merge_columnar(Cols(w.buffers[m])) IN
    /\ buffers' = w.buffers
    /\ record_counts' = w.record_counts
    /\ keys' = w.keys
    /\ last_flush_time' = w.last_flush_time
    /\ closed' = w.closed
    /\ lock' = None
    /\ pc' = [pc EXCEPT ![t] = "sink"]
    /\ sent' = [sent EXCEPT ![m] = Append(@, Bids(w.buffers[m]))]
    /\ last' = None
    /\ SetFrame(t, [fr EXCEPT !.cont = cont, !.todo = todo, !.fm = m,
                              !.merged = merged, !.inv = Len(sent[m]) + 1])

\* _flush_measurement from the merge to the sink call (lines 146-156): merge
\* the batches, clear the buffer and the count, release the lock, call the
\* sink.  The producer is then inside self._client.write_columnar(m, merged).
begin_sink_call(t, fr, w, m, cont, todo) ==
    LET merged == merge_columnar(Cols(w.buffers[m])) IN
    /\ buffers' = [w.buffers EXCEPT ![m] = <<>>]
    /\ record_counts' = [w.record_counts EXCEPT ![m] = 0]
    /\ keys' = w.keys
    /\ last_flush_time' = w.last_flush_time
    /\ closed' = w.closed
    /\ lock' = None
    /\ pc' = [pc EXCEPT ![t] = "sink"]
    /\ sent' = [sent EXCEPT ![m] = Append(@, Bids(w.buffers[m]))]
    /\ last' = None
    /\ SetFrame(t, [fr EXCEPT !.cont = cont, !.todo = todo, !.fm = m,
                              !.merged = merged, !.inv = Len(sent[m]) + 1])

\* Mutant of SkipEmpty: measurements with an empty buffer are not skipped.
SkipEmpty_none(todo, bufs) == todo

\* _flush_all: the first measurement of the snapshot, from position `todo` on,
\* whose buffer is not empty (`if self._buffers[measurement]`).
RECURSIVE SkipEmpty(_, _)
SkipEmpty(todo, bufs) ==
    IF todo = <<>> THEN <<>>
    ELSE IF bufs[Head(todo)] # <<>> THEN todo
    ELSE SkipEmpty(Tail(todo), bufs)

\* Mutant of flush_all_loop: the loop stops after the first measurement sent.
flush_all_loop_first(t, fr, w, todo) ==
    LET rest == SkipEmpty(todo, w.buffers) IN
    IF rest = <<>> THEN Return(t, fr, w)
    ELSE begin_sink_call(t, fr, w, Head(rest), "loop", <<>>)

\* _flush_all, the loop from position `todo` of the snapshot: flush the next
\* measurement with a non-empty buffer, or return to the caller when none is left.
flush_all_loop(t, fr, w, todo) ==
    LET rest == SkipEmpty(todo, w.buffers) IN
    IF rest = <<>> THEN Return(t, fr, w)
    ELSE begin_sink_call(t, fr, w, Head(rest), "loop", Tail(rest))

\* _flush_all: measurements = list(self._buffers.keys()), then the loop.
flush_all(t, fr, w) == flush_all_loop(t, fr, w, w.keys)

\* write / write_columnar, the time-based check (lines 104-106, 132-134).
time_check(t, fr, w) ==
    IF now - w.last_flush_time >= flush_interval
    THEN flush_all(t, fr, w)
    ELSE Return(t, fr, w)

\* _flush_measurement as called by the size check: returns at once when the
\* measurement has no buffered batch, else starts the sink call.
flush_measurement(t, fr, w, m) ==
    IF m \notin Range(w.keys) \/ w.buffers[m] = <<>>
    THEN time_check(t, fr, w)
    ELSE begin_sink_call(t, fr, w, m, "time_check", <<>>)

\* Mutant of size_check: > instead of >=.
size_check_gt(t, fr, w, m) ==
    IF w.record_counts[m] > batch_size
    THEN flush_measurement(t, fr, w, m)
    ELSE time_check(t, fr, w)

\* write / write_columnar, the size check (lines 100-102, 128-130).
size_check(t, fr, w, m) ==
    IF w.record_counts[m] >= batch_size
    THEN flush_measurement(t, fr, w, m)
    ELSE time_check(t, fr, w)

\* write / write_columnar under the lock: append the batch, add n to the
\* count (the defaultdicts create the key on first access), run the checks.
append_and_check(t, fr, w, m, columns, n) ==
    LET w1 == [w EXCEPT
                 !.buffers[m] = Append(@, [bid |-> nextBid + 1, cols |-> columns]),
                 !.record_counts[m] = @ + n,
                 !.keys = IF m \in Range(@) THEN @ ELSE Append(@, m)]
        fr1 == [fr EXCEPT
                 !.elapsed = (now - w.last_flush_time >= flush_interval)]
    IN size_check(t, fr1, w1, m)

\* ----------------------------------------------------------------- actions
\* Producer t's call ends before it takes the lock.
EarlyReturn(t, res) ==
    /\ last' = res
    /\ UNCHANGED <<buffers, record_counts, keys, last_flush_time, lock,
                   closed, pc, call, sent, nextBid>>

\* Mutant of write: a record without fields is buffered.
write_without_fields_check(t, record) ==
    /\ pc[t] = "idle"
    /\ IF record.measurement = ""
       THEN EarlyReturn(t, "ValueError")
       ELSE /\ lock = None
            /\ nextBid < MaxBatches
            /\ nextBid' = nextBid + 1
            /\ append_and_check(t, NewFrame(t, "write"), Writer,
                                record.measurement,
                                RecordColumns(record, nextBid + 1), 1)
    /\ raised' = None
    /\ UNCHANGED <<variant, result, batch_size, flush_interval, now>>

\* write(record): validation (lines 75-81), the one-row columnar batch
\* (lines 83-94), then the with block (lines 96-106).
write(t, record) ==
    /\ pc[t] = "idle"
    /\ IF record.measurement = "" \/ ~record.fields
       THEN EarlyReturn(t, "ValueError")
       ELSE /\ lock = None
            /\ nextBid < MaxBatches
            /\ nextBid' = nextBid + 1
            /\ append_and_check(t, NewFrame(t, "write"), Writer,
                                record.measurement,
                                RecordColumns(record, nextBid + 1), 1)
    /\ raised' = None
    /\ UNCHANGED <<variant, result, batch_size, flush_interval, now>>

\* write_columnar(measurement, columns): empty columns return (lines
\* 119-120), else the with block (lines 122-134).
write_columnar(t, m, columns) ==
    /\ pc[t] = "idle"
    /\ IF DOMAIN columns = {}
       THEN EarlyReturn(t, "ok")
       ELSE /\ lock = None
            /\ nextBid < MaxBatches
            /\ nextBid' = nextBid + 1
            /\ append_and_check(t, NewFrame(t, "write_columnar"), Writer,
                                m, columns, num_records(columns))
    /\ raised' = None
    /\ UNCHANGED <<variant, result, batch_size, flush_interval, now>>

\* flush(), lines 138-139.
flush(t) ==
    /\ pc[t] = "idle"
    /\ lock = None
    /\ flush_all(t, NewFrame(t, "flush"), Writer)
    /\ raised' = None
    /\ UNCHANGED <<variant, result, batch_size, flush_interval, now, nextBid>>

\* Mutant of close: self._closed is not looked at.
close_unchecked(t, exc) ==
    /\ pc[t] = "idle"
    /\ pc' = [pc EXCEPT ![t] = "close_lock"]
    /\ SetFrame(t, NewFrame(t, "close"))
    /\ last' = None
    /\ raised' = None
    /\ UNCHANGED <<buffers, record_counts, keys, last_flush_time,
                   lock, closed, sent, nextBid>>
    /\ UNCHANGED <<variant, result, batch_size, flush_interval, now>>

\* close(), lines 196-197, also called by __exit__ whether or not an
\* exception left the scope (exc): returns at once when already closed,
\* else goes for the lock.
close(t, exc) ==
    /\ pc[t] = "idle"
    /\ IF closed
       THEN EarlyReturn(t, "ok")
       ELSE /\ pc' = [pc EXCEPT ![t] = "close_lock"]
            /\ SetFrame(t, NewFrame(t, "close"))
            /\ last' = None
            /\ UNCHANGED <<buffers, record_counts, keys, last_flush_time,
                           lock, closed, sent, nextBid>>
    /\ raised' = None
    /\ UNCHANGED <<variant, result, batch_size, flush_interval, now>>

\* Mutant of close_locked: the writer is closed without the final flush.
close_locked_no_flush(t) ==
    /\ pc[t] = "close_lock"
    /\ lock = None
    /\ Return(t, call[t], Writer)
    /\ raised' = None
    /\ UNCHANGED <<variant, result, batch_size, flush_interval, now, nextBid>>

\* close(), lines 199-201: the with block.
close_locked(t) ==
    /\ pc[t] = "close_lock"
    /\ lock = None
    /\ flush_all(t, call[t], Writer)
    /\ raised' = None
    /\ UNCHANGED <<variant, result, batch_size, flush_interval, now, nextBid>>

\* Mutant of after_sink: the flush time is also set when the sink raised.
after_sink_sets_time(t, fr, w, error) ==
    LET w1 == [w EXCEPT !.last_flush_time = now] IN
    IF error # None
    THEN EndCall(t, fr, w1, error)
    ELSE IF fr.cont = "time_check" THEN time_check(t, fr, w1)
         ELSE flush_all_loop(t, fr, w1, fr.todo)

\* Mutant of after_sink: the sink's exception is swallowed.
after_sink_swallows(t, fr, w, error) ==
    LET w1 == [w EXCEPT !.last_flush_time = now] IN
    IF fr.cont = "time_check" THEN time_check(t, fr, w1)
    ELSE flush_all_loop(t, fr, w1, fr.todo)

\* Mutant of after_sink: when the sink raises, the batch that was sent is put
\* back in front of the buffer and counted again.
after_sink_restores(t, fr, w, error) ==
    IF error # None
    THEN EndCall(t, fr,
                 [w EXCEPT
                    !.buffers[fr.fm] =
                        <<[bid |-> sent[fr.fm][fr.inv][1], cols |-> fr.merged]>> \o @,
                    !.record_counts[fr.fm] = @ + num_records(fr.merged)],
                 error)
    ELSE LET w1 == [w EXCEPT !.last_flush_time = now] IN
         IF fr.cont = "time_check" THEN time_check(t, fr, w1)
         ELSE flush_all_loop(t, fr, w1, fr.todo)

\* After the sink call, holding the lock again: an exception of the sink
\* leaves _flush_measurement, its callers and the with block; otherwise
\* self._last_flush_time = time.monotonic() (line 160) and the caller goes on.
after_sink(t, fr, w, error) ==
    IF error # None
    THEN EndCall(t, fr, w, error)
    ELSE LET w1 == [w EXCEPT !.last_flush_time = now] IN
         IF fr.cont = "time_check" THEN time_check(t, fr, w1)
         ELSE flush_all_loop(t, fr, w1, fr.todo)

\* encode_columnar (msgpack.py 71-81), called by the sink before anything is
\* sent: the error it raises, None when the columns pass.
encode_columnar(measurement, columns) ==
    IF measurement = "" THEN "ArcValidationError"
    ELSE IF DOMAIN columns = {} THEN "ArcValidationError"
    ELSE IF Cardinality({Len(columns[c]) : c \in DOMAIN columns}) > 1
         THEN "ArcValidationError"
    ELSE None

\* The sink, WriteClient.write_columnar (writer.py 87-95): the encoder's
\* error, else the outcome `error` of sending the data.
SinkOutcome(t, error) ==
    LET invalid == encode_columnar(call[t].fm, call[t].merged) IN
    IF invalid # None THEN invalid ELSE error

\* The sink call returns or raises, and `finally: self._lock.acquire()`
\* (lines 157-158) takes the lock again.
sink_returns(t, error) ==
    /\ pc[t] = "sink"
    /\ lock = None
    /\ after_sink(t, call[t], Writer, SinkOutcome(t, error))
    /\ raised' = SinkOutcome(t, error)
    /\ UNCHANGED <<variant, result, batch_size, flush_interval, now, nextBid>>

\* The monotonic clock advances.
Tick ==
    /\ now < MaxTime
    /\ now' = now + 1
    /\ last' = None
    /\ raised' = None
    /\ result' = -1
    /\ UNCHANGED <<buffers, record_counts, keys, last_flush_time, lock, closed,
                   batch_size, flush_interval, pc, call, sent, nextBid, variant>>

\* The errors the sink call can raise (network error, server rejection).
SinkErrors == {"ConnectionError", "ServerError"}

Next ==
    \/ \E t \in Producers, record \in Records : write(t, record)
    \/ \E t \in Producers, m \in Measurements :
         \E columns \in ColumnarInputs(nextBid + 1) : write_columnar(t, m, columns)
    \/ \E t \in Producers : flush(t)
    \/ \E t \in Producers, exc \in BOOLEAN : close(t, exc)
    \/ \E t \in Producers : close_locked(t)
    \/ \E t \in Producers, error \in {None} \cup SinkErrors : sink_returns(t, error)
    \/ Tick

Spec == Init /\ [][Next]_vars

\* ------------------------------------------------------------ fair variant
\* The scheduler runs every started call on, the sink answers and the clock
\* advances; nothing makes a producer issue another call.
SpecFair ==
    /\ Spec
    /\ WF_vars(Tick)
    /\ \A t \in Producers :
         /\ WF_vars(close_locked(t))
         /\ WF_vars(\E error \in {None} \cup SinkErrors : sink_returns(t, error))

\* ---------------------------------------------------- the lock, step by step
\* SpecLock cuts the calls finer than Spec: going for the lock, taking it,
\* the append and the count update of write / write_columnar, the end of the
\* sink call and the re-acquisition in `finally` are steps of their own, so
\* that who holds the lock, and the states in the middle of a buffer
\* mutation, can be seen.  It runs both variants.
Variants == {"thread", "async"}

\* Positions in which a producer holds the lock and is running.
Running == {"locked", "appended", "resumed"}

\* Threads are preemptive: any thread can take its next step.  The tasks of
\* the event loop run until they suspend (asyncio: at the lock, at the sink
\* call): a task takes a step only while no other task is running.
CanRun(t) ==
    variant = "thread" \/ \A u \in Producers \ {t} : pc[u] \notin Running

\* write / write_columnar calls that have started: the batches buffered and
\* those of the calls on their way to the append.
BatchesIssued ==
    nextBid + Cardinality({u \in Producers :
                              /\ pc[u] \in {"acquire", "locked"}
                              /\ call[u].op \in {"write", "write_columnar"}})

\* `with self._lock:` / `async with self._lock:` is reached.
lk_enter(t, op, arg) ==
    /\ pc' = [pc EXCEPT ![t] = "acquire"]
    /\ SetFrame(t, [NewFrame(t, op) EXCEPT !.arg = arg])
    /\ last' = None
    /\ UNCHANGED <<buffers, record_counts, keys, last_flush_time, lock,
                   closed, sent, nextBid>>

\* write(record) up to the with block (lines 75-96).
lk_write(t, record) ==
    /\ pc[t] = "idle" /\ CanRun(t)
    /\ IF record.measurement = "" \/ ~record.fields
       THEN EarlyReturn(t, "ValueError")
       ELSE /\ BatchesIssued < MaxBatches
            /\ lk_enter(t, "write",
                        [m |-> record.measurement,
                         names |-> DOMAIN RecordColumns(record, 0), n |-> 1])
    /\ raised' = None
    /\ result' = -1
    /\ UNCHANGED <<variant, batch_size, flush_interval, now>>

\* write_columnar(measurement, columns) up to the with block (lines 119-124);
\* the columns have the given names and n rows each.
lk_write_columnar(t, m, names, n) ==
    /\ pc[t] = "idle" /\ CanRun(t)
    /\ IF names = {}
       THEN EarlyReturn(t, "ok")
       ELSE /\ BatchesIssued < MaxBatches
            /\ lk_enter(t, "write_columnar", [m |-> m, names |-> names, n |-> n])
    /\ raised' = None
    /\ result' = -1
    /\ UNCHANGED <<variant, batch_size, flush_interval, now>>

\* flush() up to the with block (line 138).
lk_flush(t) ==
    /\ pc[t] = "idle" /\ CanRun(t)
    /\ lk_enter(t, "flush", IdleFrame.arg)
    /\ raised' = None
    /\ result' = -1
    /\ UNCHANGED <<variant, batch_size, flush_interval, now>>

\* close() up to the with block (lines 196-199).
lk_close(t) ==
    /\ pc[t] = "idle" /\ CanRun(t)
    /\ IF closed
       THEN EarlyReturn(t, "ok")
       ELSE lk_enter(t, "close", IdleFrame.arg)
    /\ raised' = None
    /\ result' = -1
    /\ UNCHANGED <<variant, batch_size, flush_interval, now>>

\* The lock is taken: entering the with block, or `self._lock.acquire()` in
\* the finally clause after the sink call (lines 157-158).  An asyncio task
\* that finds the lock free does not suspend here; letting other tasks step
\* before it takes the lock only adds interleavings.
lk_acquire(t) ==
    /\ pc[t] \in {"acquire", "reacquire"} /\ CanRun(t)
    /\ lock = None
    /\ lock' = t
    /\ pc' = [pc EXCEPT ![t] = IF pc[t] = "acquire" THEN "locked" ELSE "resumed"]
    /\ last' = None
    /\ raised' = None
    /\ result' = -1
    /\ UNCHANGED <<buffers, record_counts, keys, last_flush_time, closed,
                   call, sent, nextBid>>
    /\ UNCHANGED <<variant, batch_size, flush_interval, now>>

\* self._buffers[measurement].append(columns) (lines 97, 125).
lk_append(t) ==
    LET a == call[t].arg
        columns == [c \in a.names |-> [k \in 1..a.n |-> Row(nextBid + 1, k)]]
    IN
    /\ pc[t] = "locked"
    /\ call[t].op \in {"write", "write_columnar"}
    /\ buffers' = [buffers EXCEPT
                     ![a.m] = Append(@, [bid |-> nextBid + 1, cols |-> columns])]
    /\ keys' = IF a.m \in Range(keys) THEN keys ELSE Append(keys, a.m)
    /\ nextBid' = nextBid + 1
    /\ pc' = [pc EXCEPT ![t] = "appended"]
    /\ last' = None
    /\ raised' = None
    /\ result' = -1
    /\ UNCHANGED <<record_counts, last_flush_time, lock, closed, call, sent>>
    /\ UNCHANGED <<variant, batch_size, flush_interval, now>>

\* self._record_counts[measurement] += n, then the size check and the time
\* check (lines 98-106, 126-134), up to the sink call or the return.
lk_count(t) ==
    LET a == call[t].arg
        w1 == [Writer EXCEPT !.record_counts[a.m] = @ + a.n]
        fr1 == [call[t] EXCEPT
                  !.elapsed = (now - last_flush_time >= flush_interval)]
    IN
    /\ pc[t] = "appended"
    /\ size_check(t, fr1, w1, a.m)
    /\ raised' = None
    /\ result' = -1
    /\ UNCHANGED <<variant, batch_size, flush_interval, now, nextBid>>

\* flush() and close() inside the with block (lines 139, 200-201).
lk_flush_all(t) ==
    /\ pc[t] = "locked"
    /\ call[t].op \in {"flush", "close"}
    /\ flush_all(t, call[t], Writer)
    /\ raised' = None
    /\ result' = -1
    /\ UNCHANGED <<variant, batch_size, flush_interval, now, nextBid>>

\* Mutant of lk_sink_done: the lock is not taken again after the sink call.
lk_sink_done_no_acquire(t, error) ==
    /\ pc[t] = "sink" /\ CanRun(t)
    /\ pc' = [pc EXCEPT ![t] = "resumed"]
    /\ call' = [call EXCEPT ![t].error = SinkOutcome(t, error)]
    /\ raised' = SinkOutcome(t, error)
    /\ last' = None
    /\ result' = -1
    /\ UNCHANGED <<buffers, record_counts, keys, last_flush_time, lock,
                   closed, sent, nextBid>>
    /\ UNCHANGED <<variant, batch_size, flush_interval, now>>

\* The sink call returns or raises (line 156): the producer goes for the lock
\* again in the finally clause.
lk_sink_done(t, error) ==
    /\ pc[t] = "sink" /\ CanRun(t)
    /\ pc' = [pc EXCEPT ![t] = "reacquire"]
    /\ call' = [call EXCEPT ![t].error = SinkOutcome(t, error)]
    /\ raised' = SinkOutcome(t, error)
    /\ last' = None
    /\ result' = -1
    /\ UNCHANGED <<buffers, record_counts, keys, last_flush_time, lock,
                   closed, sent, nextBid>>
    /\ UNCHANGED <<variant, batch_size, flush_interval, now>>

\* With the lock held again: the sink's exception propagates, or line 160 and
\* the rest of the caller.
lk_resume(t) ==
    /\ pc[t] = "resumed"
    /\ after_sink(t, call[t], Writer, call[t].error)
    /\ raised' = None
    /\ result' = -1
    /\ UNCHANGED <<variant, batch_size, flush_interval, now, nextBid>>

\* Mutant of lk_pending_count: the thread variant reads without the lock.
lk_pending_count_unlocked(t) ==
    /\ pc[t] = "idle" /\ CanRun(t)
    /\ result' = pending_count
    /\ last' = "ok"
    /\ raised' = None
    /\ UNCHANGED <<buffers, record_counts, keys, last_flush_time, lock, closed,
                   pc, call, sent, nextBid>>
    /\ UNCHANGED <<variant, batch_size, flush_interval, now>>

\* The pending_count property.  BufferedWriter (lines 211-215) takes the
\* lock, sums the counts and releases it; AsyncBufferedWriter
\* (async_buffered.py 160-163) sums the counts without the lock.
lk_pending_count(t) ==
    /\ pc[t] = "idle" /\ CanRun(t)
    /\ variant = "thread" => lock = None
    /\ result' = pending_count
    /\ last' = "ok"
    /\ raised' = None
    /\ UNCHANGED <<buffers, record_counts, keys, last_flush_time, lock, closed,
                   pc, call, sent, nextBid>>
    /\ UNCHANGED <<variant, batch_size, flush_interval, now>>

InitLock ==
    /\ buffers = [m \in Measurements |-> <<>>]
    /\ record_counts = [m \in Measurements |-> 0]
    /\ keys = <<>>
    /\ now = 0
    /\ last_flush_time = 0
    /\ lock = None
    /\ closed = FALSE
    /\ batch_size = CHOOSE b \in BatchSizes : \A c \in BatchSizes : b <= c
    /\ flush_interval \in FlushIntervals
    /\ pc = [t \in Producers |-> "idle"]
    /\ call = [t \in Producers |-> IdleFrame]
    /\ sent = [m \in Measurements |-> <<>>]
    /\ raised = None
    /\ last = None
    /\ nextBid = 0
    /\ variant \in Variants
    /\ result = -1

NextLock ==
    \/ \E t \in Producers, record \in Records : lk_write(t, record)
    \/ \E t \in Producers, m \in Measurements, names \in ColumnSets, n \in 1..MaxRows :
         lk_write_columnar(t, m, names, n)
    \/ \E t \in Producers : lk_flush(t)
    \/ \E t \in Producers : lk_close(t)
    \/ \E t \in Producers : lk_acquire(t)
    \/ \E t \in Producers : lk_append(t)
    \/ \E t \in Producers : lk_count(t)
    \/ \E t \in Producers : lk_flush_all(t)
    \/ \E t \in Producers, error \in {None} \cup SinkErrors : lk_sink_done(t, error)
    \/ \E t \in Producers : lk_resume(t)
    \/ \E t \in Producers : lk_pending_count(t)

SpecLock == InitLock /\ [][NextLock]_vars

\* ------------------------------------------------------- merge on flush()
\* SpecMerge: flush() called on a writer that holds pending write_columnar
\* batches for one measurement, none of which fired a trigger: batch_size is
\* above the rows pending and the interval has not elapsed.
MergeColumnSets ==
    {{"time", "usage"}, {"time", "host"}, {"time", "host", "usage"}}
MergeShapes == [names : MergeColumnSets, rows : 1..MaxMergeRows]

\* The batch that write_columnar buffered as number bid, of the given shape.
MergeBatch(shape, bid) ==
    [bid |-> bid,
     cols |-> [c \in shape.names |-> [k \in 1..shape.rows |-> Row(bid, k)]]]

InitMerge ==
    /\ \E n \in 1..MaxMergeBatches : \E shapes \in [1..n -> MergeShapes] :
          /\ buffers = [m \in Measurements |->
                          IF m = "cpu"
                          THEN [i \in 1..n |-> MergeBatch(shapes[i], i)]
                          ELSE <<>>]
          /\ nextBid = n
    /\ record_counts = [m \in Measurements |->
                          SumCounts([i \in 1..Len(buffers[m]) |->
                                        num_records(buffers[m][i].cols)],
                                    1..Len(buffers[m]))]
    /\ keys = <<"cpu">>
    /\ now = 0
    /\ last_flush_time = 0
    /\ lock = None
    /\ closed = FALSE
    /\ batch_size = MaxMergeBatches * MaxMergeRows + 1
    /\ flush_interval = 1
    /\ pc = [t \in Producers |-> "idle"]
    /\ call = [t \in Producers |-> IdleFrame]
    /\ sent = [m \in Measurements |-> <<>>]
    /\ raised = None
    /\ last = None
    /\ variant = "thread"
    /\ result = -1

NextMerge ==
    \/ \E t \in Producers : flush(t)
    \/ \E t \in Producers, error \in {None} \cup SinkErrors : sink_returns(t, error)

SpecMerge == InitMerge /\ [][NextMerge]_vars

\* ------------------------------------------------------ history operators
\* The batches sent for m, over all its sink invocations, in invocation order.
Flat(m) == Concat(sent[m])

\* The batches pending for m.
PendingBids(m) == Bids(buffers[m])

Count(seq, x) == Cardinality({i \in 1..Len(seq) : seq[i] = x})

RECURSIVE SumOver(_, _)
SumOver(f, S) ==
    IF S = {} THEN 0
    ELSE LET x == CHOOSE y \in S : TRUE IN f[x] + SumOver(f, S \ {x})

\* In how many sink invocations batch b was sent, and how often it is pending.
TimesSent(b) == SumOver([m \in Measurements |-> Count(Flat(m), b)], Measurements)
TimesPending(b) ==
    SumOver([m \in Measurements |-> Count(PendingBids(m), b)], Measurements)

\* Number of sink invocations made so far.
Invocations == SumOver([m \in Measurements |-> Len(sent[m])], Measurements)

\* Producer t's call ends in this step, having started a sink call before.
EndsAfterSink(t) == pc[t] = "sink" /\ pc'[t] = "idle"

\* ------------------------------------------------------------------ claims
\* C1: no batch is flushed twice and none is lost: every batch accepted into
\* the buffer is, in every reachable state, either still pending (once) or
\* part of exactly one sink invocation, never of two and never of both.
C1_NoBatchFlushedTwice ==
    \A b \in 1..nextBid :
        /\ TimesSent(b) <= 1
        /\ TimesSent(b) + TimesPending(b) = 1

\* C1 witness: two producers are inside sink calls for the same measurement.
C1_Witness ==
    \E t, u \in Producers, m \in Measurements :
        /\ t # u /\ pc[t] = "sink" /\ pc[u] = "sink"
        /\ call[t].fm = m /\ call[u].fm = m

\* C3 (as claimed): a close() whose final flush raised still sets the closed
\* flag.
C3_ClosedAfterFailedClose ==
    [][\A t \in Producers :
         (EndsAfterSink(t) /\ call[t].op = "close" /\ raised' # None)
            => closed']_vars

\* Rows in order: (batch, row) pairs strictly increasing.
RowLess(r1, r2) == r1[1] < r2[1] \/ (r1[1] = r2[1] /\ r1[2] < r2[2])
RowsInOrder(rows) ==
    \A i, j \in 1..Len(rows) : i < j => RowLess(rows[i], rows[j])
Increasing(seq) == \A i, j \in 1..Len(seq) : i < j => seq[i] < seq[j]

RECURSIVE RowsIn(_)
RowsIn(batches) ==
    IF batches = <<>> THEN 0
    ELSE num_records(Head(batches).cols) + RowsIn(Tail(batches))

\* Producer t's sink call raised in this step.
SinkRaisedFor(t) ==
    pc[t] = "sink" /\ raised' # None /\ (pc'[t] # pc[t] \/ call'[t] # call[t])

\* C9: when the sink call fails, the batches cleared for it are not put back
\* (the buffers and counts are left as they are and count only what is
\* pending), the call makes no further sink invocation, and no later step
\* buffers or sends a batch other than pending ones and the one just written.
C9_FailedBatchNotRestored ==
    [][/\ \A t \in Producers :
            SinkRaisedFor(t) =>
               /\ buffers' = buffers /\ record_counts' = record_counts
               /\ record_counts'[call[t].fm] = RowsIn(buffers'[call[t].fm])
               /\ Range(sent[call[t].fm][call[t].inv])
                     \cap Range(Bids(buffers'[call[t].fm])) = {}
               /\ sent' = sent /\ pc'[t] = "idle"
       /\ \A m \in Measurements :
            /\ Range(PendingBids(m))' \subseteq Range(PendingBids(m)) \cup {nextBid + 1}
            /\ Range(Flat(m))' \ Range(Flat(m))
                  \subseteq Range(PendingBids(m)) \cup {nextBid + 1}]_vars

\* C9 witness: a sink call has just failed while a new batch was already
\* pending for a measurement that has been sent before.
C9_Witness ==
    /\ raised # None
    /\ \E m \in Measurements : sent[m] # <<>> /\ buffers[m] # <<>>

\* C10: an error of the sink call ends the call that made it and is the
\* error that call raises, whatever the call is.
C10_SinkFailurePropagates ==
    [][\A t \in Producers :
         SinkRaisedFor(t) => (pc'[t] = "idle" /\ last' = raised')]_vars

\* C10 witness: a call has just raised the sink's error.
C10_Witness == raised \in SinkErrors /\ last = raised /\ ~closed

\* The sequence 1, ..., n.
UpTo(n) == [i \in 1..n |-> i]

\* The "time" column of the batches pending for m, in arrival order.
PendingTimes(m) ==
    Concat([i \in 1..Len(buffers[m]) |-> buffers[m][i].cols["time"]])

\* Producer t, inside a call, takes a step of it.
Stepped(t) ==
    \/ pc'[t] # pc[t]
    \/ <<call'[t].fm, call'[t].inv, call'[t].todo>>
          # <<call[t].fm, call[t].inv, call[t].todo>>

\* A close() of producer t ends in this step (returns or raises).
CloseEnds(t) ==
    call[t].op = "close" /\ pc[t] \in {"close_lock", "sink"} /\ pc'[t] = "idle"

\* A close() of producer t starts a sink call in this step.
CloseSends(t) ==
    /\ call[t].op = "close" /\ pc[t] \in {"close_lock", "sink"}
    /\ pc'[t] = "sink" /\ Stepped(t)

\* The scope is exited with rows written and nothing sent before, and no
\* other producer runs meanwhile.
ScopeExitCase(t) == call[t].alone /\ call[t].first /\ nextBid > 0

WroteTo(m) ==
    /\ nextBid' = nextBid + 1
    /\ nextBid' \in Range(Bids(buffers'[m])) \cup Range(Concat(sent'[m]))

\* Rows of the batch that this step buffers for m.
NewRows(m) ==
    LET pending == Concat([i \in 1..Len(buffers'[m]) |-> buffers'[m][i].cols["time"]])
        inflight == UNION {IF pc'[t] = "sink" /\ call'[t].fm = m
                           THEN Range(call'[t].merged["time"]) ELSE {} :
                           t \in Producers}
    IN  Cardinality({r \in Range(pending) \cup inflight : r[1] = nextBid'})

\* C6: a single-row write that brings the count of m from batch_size - 1 to
\* batch_size starts exactly one sink invocation, for m, whose time column is
\* the batch_size rows in arrival order, and leaves m's buffer and count
\* empty; a write that leaves the count below batch_size while the interval
\* has not elapsed starts none; and when the size-triggered call returns
\* without the time trigger firing, the call returns with no further one.
C6_SizeTrigger ==
    [][/\ \A m \in Measurements :
            (WroteTo(m) /\ NewRows(m) = 1 /\ record_counts[m] = batch_size - 1) =>
               \E t \in Producers :
                  /\ pc[t] = "idle" /\ pc'[t] = "sink" /\ call'[t].fm = m
                  /\ sent' = [sent EXCEPT
                                ![m] = Append(@, Append(PendingBids(m), nextBid'))]
                  /\ call'[t].merged["time"]
                        = Append(PendingTimes(m), Row(nextBid', 1))
                  /\ Len(call'[t].merged["time"]) = batch_size
                  /\ record_counts'[m] = 0 /\ buffers'[m] = <<>>
       /\ \A m \in Measurements :
            (/\ WroteTo(m) /\ record_counts'[m] # 0
             /\ record_counts'[m] < batch_size
             /\ now - last_flush_time < flush_interval) =>
               (sent' = sent /\ pc' = pc /\ last' = "ok")
       /\ \A t \in Producers :
            (/\ pc[t] = "sink" /\ call[t].cont = "time_check"
             /\ call[t].op = "write" /\ Stepped(t)
             /\ raised' = None /\ flush_interval > 0) =>
               (sent' = sent /\ pc'[t] = "idle" /\ last' = "ok")]_vars

\* C6 witness: the batch_size-th single-row write, with nothing sent before,
\* is inside the sink call with batch_size rows, the count back at 0.
C6_Witness ==
    \E t \in Producers :
        /\ pc[t] = "sink" /\ call[t].op = "write"
        /\ call[t].cont = "time_check" /\ call[t].first
        /\ sent[call[t].fm] = <<UpTo(batch_size)>>
        /\ Len(call[t].merged["time"]) = batch_size
        /\ record_counts[call[t].fm] = 0

\* A write or write_columnar of producer t returns normally in this step,
\* after it flushed.
WriteReturnsAfterFlush(t) ==
    /\ pc[t] = "sink" /\ call[t].op \in {"write", "write_columnar"}
    /\ pc'[t] = "idle" /\ last' = "ok"

C4_SlowSinkDoesNotStall ==
    \A t, u \in Producers, m2 \in Measurements :
        (/\ pc[t] = "sink" /\ u # t /\ pc[u] = "idle"
         /\ m2 # call[t].fm /\ nextBid < MaxBatches
         /\ record_counts[m2] + 1 < batch_size
         /\ now - last_flush_time < flush_interval) =>
           /\ ENABLED (/\ write(u, [measurement |-> m2, fields |-> TRUE, tags |-> FALSE])
                       /\ pc'[u] = "idle" /\ last' = "ok" /\ pc'[t] = "sink"
                       /\ Bids(buffers'[m2]) = Append(PendingBids(m2), nextBid + 1)
                       /\ record_counts'[m2] = record_counts[m2] + 1)
           /\ ENABLED (/\ write_columnar(u, m2,
                             [c \in {"time", "usage"} |-> <<Row(nextBid + 1, 1)>>])
                       /\ pc'[u] = "idle" /\ last' = "ok" /\ pc'[t] = "sink"
                       /\ Bids(buffers'[m2]) = Append(PendingBids(m2), nextBid + 1)
                       /\ record_counts'[m2] = record_counts[m2] + 1)

\* C4 witness: a size-triggered sink call is in progress and a batch written
\* after it started is pending for another measurement.
C4_Witness ==
    \E t \in Producers, m2 \in Measurements :
        /\ pc[t] = "sink" /\ call[t].cont = "time_check" /\ m2 # call[t].fm
        /\ nextBid \in Range(PendingBids(m2))
        /\ \A b \in Range(sent[call[t].fm][call[t].inv]) : b < nextBid
        /\ last = "ok"

\* C8 (as claimed): rows pending for a measurement when flush_interval has
\* passed since the last flush are eventually handed to the sink.
C8_ElapsedIntervalFlushes ==
    \A m \in Measurements :
        (buffers[m] # <<>> /\ now - last_flush_time >= flush_interval)
            ~> (buffers[m] = <<>>)

\* The writer's buffers, counts and flush time, the lock, the producers'
\* positions and the sink invocations made.
Untouched ==
    UNCHANGED <<buffers, record_counts, keys, last_flush_time, lock, closed,
                pc, sent, nextBid>>

\* C11: write(record) with a missing or empty measurement, or with missing or
\* empty fields, raises ValueError and changes nothing: buffers, counts,
\* last flush time and pending_count stay as they were, the lock is not
\* taken and no sink invocation is made.
C11_InvalidRecordRejected ==
    [][\A t \in Producers, record \in Records :
         ((record.measurement = "" \/ ~record.fields) /\ write(t, record)) =>
            /\ last' = "ValueError"
            /\ Untouched
            /\ pending_count' = pending_count]_vars

\* C11 witness: a write has just raised ValueError while rows are pending and
\* another producer is inside a sink call.
C11_Witness ==
    /\ last = "ValueError"
    /\ pending_count > 0
    /\ \E t \in Producers : pc[t] = "sink"

FlushEnds(t) ==
    pc[t] = "sink" /\ call[t].op = "flush" /\ pc'[t] = "idle" /\ last' = "ok"

\* C13: a flush() made alone leaves every buffer empty when it returns, having
\* made at most one sink invocation per measurement; a flush() made when
\* every buffer is empty returns at once without any sink invocation.
C13_SecondFlushSendsNothing ==
    [][/\ \A t \in Producers :
            (FlushEnds(t) /\ call[t].alone) =>
               /\ \A m \in Measurements : buffers'[m] = <<>>
               /\ pending_count' = 0
               /\ call[t].first => \A m \in Measurements : Len(sent'[m]) <= 1
       /\ \A t \in Producers :
            (flush(t) /\ \A m \in Measurements : buffers[m] = <<>>) =>
               (last' = "ok" /\ Untouched)]_vars

\* C13 witness: a flush() has just returned with every buffer empty, after a
\* flush sent the rows of both measurements, one invocation each.
C13_Witness ==
    /\ last = "ok" /\ ~closed
    /\ \A t \in Producers : pc[t] = "idle"
    /\ Len(keys) = 2
    /\ \A m \in Measurements : buffers[m] = <<>> /\ Len(sent[m]) = 1

\* A flush() of producer t starts a sink call in the step that issues it.
FlushSends(t) ==
    pc[t] = "idle" /\ pc'[t] = "sink" /\ call'[t].op = "flush"

\* The values that batch i has for column col (none when it lacks col).
ColLen(batches, col, i) ==
    IF col \in DOMAIN batches[i] THEN Len(batches[i][col]) ELSE 0

\* The number of values for col in the batches before batch i.
RECURSIVE Offset(_, _, _)
Offset(batches, col, i) ==
    IF i = 1 THEN 0
    ELSE Offset(batches, col, i - 1) + ColLen(batches, col, i - 1)

\* seq is, batch after batch in order, the values that the batches have for col.
IsConcatOf(seq, batches, col) ==
    /\ Len(seq) = Offset(batches, col, Len(batches) + 1)
    /\ \A i \in 1..Len(batches) : \A k \in 1..ColLen(batches, col, i) :
          seq[Offset(batches, col, i) + k] = batches[i][col][k]

\* C14: when write_columnar batches are pending for a measurement and no
\* trigger fired, flush() sends them in one sink invocation whose columns are
\* the union of the batches' columns, each the concatenation in arrival order
\* of the values of the batches that have it, and empties the buffer; made
\* alone, the flush has made exactly that one invocation when it returns.
C14_MergeConcatenatesInOrder ==
    [][\A t \in Producers :
         /\ FlushSends(t) =>
              LET m == call'[t].fm
                  batches == Cols(buffers[m])
                  merged == call'[t].merged
              IN  /\ DOMAIN merged = UNION {DOMAIN batches[i] : i \in 1..Len(batches)}
                  /\ \A col \in DOMAIN merged : IsConcatOf(merged[col], batches, col)
                  /\ sent' = [sent EXCEPT ![m] = Append(@, Bids(buffers[m]))]
                  /\ buffers'[m] = <<>>
         /\ (FlushEnds(t) /\ call[t].alone /\ call[t].first) =>
              Invocations' = 1]_vars

\* C14 witness: a flush() is inside the sink call with the merge of batches
\* of 2, 3 and 1 rows: the time column has the 6 rows in that order.
C14_Witness ==
    \E t \in Producers :
        /\ pc[t] = "sink" /\ call[t].op = "flush"
        /\ sent[call[t].fm] = <<UpTo(3)>>
        /\ call[t].merged["time"]
              = <<Row(1, 1), Row(1, 2), Row(2, 1), Row(2, 2), Row(2, 3), Row(3, 1)>>

\* Batch A with columns {time, host} then batch B with columns {time, usage}.
RaggedPair(batches) ==
    /\ Len(batches) = 2
    /\ DOMAIN batches[1] = {"time", "host"}
    /\ DOMAIN batches[2] = {"time", "usage"}

\* C15 (as claimed): flushing batch A with columns {time, host} and batch B
\* with columns {time, usage} yields a merged batch whose host column has only
\* A's values and whose usage column has only B's, and the flush does not
\* raise: the sink call for that batch raises no validation error.
C15_RaggedFlushDoesNotRaise ==
    [][\A t \in Producers :
         /\ (FlushSends(t) /\ RaggedPair(Cols(buffers[call'[t].fm]))) =>
              LET batches == Cols(buffers[call'[t].fm])
                  merged == call'[t].merged
              IN  /\ merged["host"] = batches[1]["host"]
                  /\ merged["usage"] = batches[2]["usage"]
                  /\ merged["time"] = batches[1]["time"] \o batches[2]["time"]
         /\ (/\ pc[t] = "sink" /\ call[t].op = "flush" /\ Stepped(t)
             /\ DOMAIN call[t].merged = {"time", "host", "usage"}
             /\ Len(call[t].merged["host"]) # Len(call[t].merged["time"])) =>
              raised' # "ArcValidationError"]_vars

\* C17 (as claimed): no sink invocation carries more than batch_size rows.
C17_InvocationWithinBatchSize ==
    \A t \in Producers :
        pc[t] = "sink" => Len(call[t].merged["time"]) <= batch_size

\* The rows buffered across all measurements.
RowsBuffered ==
    SumOver([m \in Measurements |-> RowsIn(buffers[m])], Measurements)

\* A buffer mutation is half-done: a batch is appended, its rows are not
\* counted yet.
HalfDone == \E u \in Producers : pc[u] = "appended"

\* C16: pending_count is read in a state where no buffer mutation is
\* half-done and returns the total number of rows buffered across all
\* measurements, in the thread variant and in the async variant, whatever the
\* other producers' writes and flushes are doing.
C16_PendingCountNotTorn ==
    [][\A t \in Producers :
         lk_pending_count(t) => (~HalfDone /\ result' = RowsBuffered)]_vars

\* An async read returned a positive count while another task was inside the
\* sink call of its write.
C16_Witness ==
    /\ variant = "async" /\ last = "ok" /\ result > 0
    /\ \E u \in Producers :
         pc[u] = "sink" /\ call[u].op \in {"write", "write_columnar"}

\* C19: whenever no producer holds the lock, the count of every measurement
\* equals the sum of the row counts of the batches pending for it, after any
\* writes, triggered and explicit flushes, close and sink failures.
C19_CountsMatchPending ==
    lock = None =>
        \A m \in Measurements : record_counts[m] = RowsIn(buffers[m])

\* The lock is free just after a call ended with the sink's error, and rows
\* of an earlier write are still pending.
C19_Witness ==
    /\ lock = None
    /\ last \in SinkErrors
    /\ \E m \in Measurements : record_counts[m] > 0 /\ buffers[m] # <<>>

\* Producer t is inside a with block of the writer, outside the sink call.
InWith(t) == pc[t] \in Running

\* The writer's buffers, counts, key order and flush time.
Mutated ==
    <<buffers, record_counts, keys, last_flush_time>>' #
    <<buffers, record_counts, keys, last_flush_time>>

\* C20: lock discipline.  A producer holds the lock exactly while it is
\* inside a with block and outside its sink call, so the lock is not held by
\* it while its sink call is in progress; every buffer mutation and trigger
\* evaluation is a step of the producer holding the lock; when the sink call
\* returns or raises the producer goes for the lock and continues only once it
\* holds it; the lock is taken only when it is free and given up only by a
\* step of its holder.
C20_LockDiscipline ==
    [][/\ \A t \in Producers :
            /\ InWith(t) <=> lock = t
            /\ (InWith(t) <=> lock = t)'
            /\ pc[t] = "sink" => lock # t
            /\ (pc[t] = "sink" /\ pc'[t] # "sink") => pc'[t] = "reacquire"
            /\ (pc[t] = "reacquire" /\ pc'[t] # "reacquire") =>
                  (pc'[t] = "resumed" /\ lock = None /\ lock' = t)
            /\ (pc[t] \in {"appended", "resumed"} /\ pc'[t] # pc[t]) =>
                  lock = t
            /\ (lock # t /\ lock' = t) =>
                  (lock = None /\ pc[t] \in {"acquire", "reacquire"})
            /\ (lock = t /\ lock' # t) =>
                  (lock' = None /\ InWith(t) /\ ~InWith(t)')
       /\ Mutated => \E t \in Producers : lock = t /\ InWith(t) /\ pc'[t] # pc[t]
      ]_vars

\* A thread holds the lock again after its sink call raised, while the other
\* thread waits for the lock.
C20_Witness ==
    \E t, u \in Producers :
        /\ pc[t] = "resumed" /\ lock = t /\ call[t].error \in SinkErrors
        /\ pc[u] = "acquire"

\* --------------------------------------------- calls issued one after another
\* The two variants as functions of the writer state, the call, the clock
\* readings and the sink outcomes, each translated from its own source.

\* The calls issued: write(record), write_columnar(measurement, columns) with
\* the given column names and n rows, flush(), close().
SeqCalls ==
    {[op |-> "write", m |-> r.measurement, fields |-> r.fields,
      names |-> {}, n |-> 1] : r \in Records}
    \cup [op : {"write_columnar"}, m : Measurements, fields : {FALSE},
          names : ColumnSets, n : 1..MaxRows]
    \cup [op : {"flush", "close"}, m : {""}, fields : {FALSE},
          names : {{}}, n : {0}]

\* A call reads time.monotonic() at most once for its time check and once
\* after each successful sink call, and calls the sink at most once per
\* measurement.
MaxReads == Cardinality(Measurements) + 1
MaxSinkCalls == Cardinality(Measurements)

\* The successive readings of time.monotonic() during a call, from the clock
\* value `from` on.
ClockReadings(from) ==
    {clk \in [1..MaxReads -> from..MaxTime] :
        \A i \in 1..(MaxReads - 1) : clk[i] <= clk[i + 1]}

\* What the successive sink calls of a call end with.
SinkOutcomes == [1..MaxSinkCalls -> {None} \cup SinkErrors]

\* A call in progress: the writer, the sink invocations made (with, as
\* history, the numbers of the batches merged), the clock
\* readings and sink outcomes still to come, the exception raised so far,
\* the number of the last batch buffered.
SeqState(w, clk, outs, bid) ==
    [w |-> w, inv |-> <<>>, clk |-> clk, outs |-> outs, error |-> None,
     bid |-> bid]

\* What the sink call for (m, merged) ends with.
SeqSink(m, merged, outcome) ==
    LET invalid == encode_columnar(m, merged) IN
    IF invalid # None THEN invalid ELSE outcome

\* BufferedWriter _flush_measurement
seq_flush_measurement(st, m) ==
    IF st.w.buffers[m] = <<>> THEN st
    ELSE LET merged == merge_columnar(Cols(st.w.buffers[m]))
             outcome == SeqSink(m, merged, Head(st.outs))
             st1 == [st EXCEPT
                       !.w.buffers[m] = <<>>,
                       !.w.record_counts[m] = 0,
                       !.inv = Append(@, [measurement |-> m, columns |-> merged,
                                          bids |-> Bids(st.w.buffers[m])]),
                       !.outs = Tail(@)]
         IN IF outcome # None
            THEN [st1 EXCEPT !.error = outcome]
            ELSE [st1 EXCEPT !.w.last_flush_time = Head(st.clk),
                             !.clk = Tail(@)]

\* Mutant of seq_flush_all_loop: the loop goes on after a sink failure.
RECURSIVE seq_flush_all_loop_goes_on(_, _)
seq_flush_all_loop_goes_on(st, measurements) ==
    IF measurements = <<>> THEN st
    ELSE LET measurement == Head(measurements)
             st1 == IF st.w.buffers[measurement] # <<>>
                    THEN seq_flush_measurement(st, measurement)
                    ELSE st
         IN seq_flush_all_loop_goes_on(st1, Tail(measurements))

\* BufferedWriter _flush_all: the loop over list(self._buffers.keys()),
\* left by the first exception.
RECURSIVE seq_flush_all_loop(_, _)
seq_flush_all_loop(st, measurements) ==
    IF measurements = <<>> \/ st.error # None THEN st
    ELSE LET measurement == Head(measurements)
             st1 == IF st.w.buffers[measurement] # <<>>
                    THEN seq_flush_measurement(st, measurement)
                    ELSE st
         IN seq_flush_all_loop(st1, Tail(measurements))

seq_flush_all(st) == seq_flush_all_loop(st, st.w.keys)

\* Mutant of seq_buffer_batch: the size trigger flushes every measurement.
seq_buffer_batch_size_flushes_all(st, m, columns, n) ==
    LET st1 == [st EXCEPT
                  !.w.buffers[m] = Append(@, [bid |-> st.bid + 1, cols |-> columns]),
                  !.w.keys = IF m \in Range(@) THEN @ ELSE Append(@, m),
                  !.w.record_counts[m] = @ + n,
                  !.bid = @ + 1]
        st2 == IF st1.w.record_counts[m] >= batch_size
               THEN seq_flush_all(st1)
               ELSE st1
    IN IF st2.error # None THEN st2
       ELSE LET st3 == [st2 EXCEPT !.clk = Tail(@)] IN
            IF Head(st2.clk) - st2.w.last_flush_time >= flush_interval
            THEN seq_flush_all(st3)
            ELSE st3

\* Mutant of seq_buffer_batch: the time check runs before the size check.
seq_buffer_batch_time_first(st, m, columns, n) ==
    LET st1 == [st EXCEPT
                  !.w.buffers[m] = Append(@, [bid |-> st.bid + 1, cols |-> columns]),
                  !.w.keys = IF m \in Range(@) THEN @ ELSE Append(@, m),
                  !.w.record_counts[m] = @ + n,
                  !.bid = @ + 1]
        st2 == LET st1a == [st1 EXCEPT !.clk = Tail(@)] IN
               IF Head(st1.clk) - st1.w.last_flush_time >= flush_interval
               THEN seq_flush_all(st1a)
               ELSE st1a
    IN IF st2.error # None THEN st2
       ELSE IF st2.w.record_counts[m] >= batch_size
            THEN seq_flush_measurement(st2, m)
            ELSE st2

\* BufferedWriter: the with block of write / write_columnar for a batch of
\* the given columns, counted as n rows.
seq_buffer_batch(st, m, columns, n) ==
    LET st1 == [st EXCEPT
                  !.w.buffers[m] = Append(@, [bid |-> st.bid + 1, cols |-> columns]),
                  !.w.keys = IF m \in Range(@) THEN @ ELSE Append(@, m),
                  !.w.record_counts[m] = @ + n,
                  !.bid = @ + 1]
        st2 == IF st1.w.record_counts[m] >= batch_size
               THEN seq_flush_measurement(st1, m)
               ELSE st1
    IN IF st2.error # None THEN st2
       ELSE LET st3 == [st2 EXCEPT !.clk = Tail(@)] IN
            IF Head(st2.clk) - st2.w.last_flush_time >= flush_interval
            THEN seq_flush_all(st3)
            ELSE st3

\* BufferedWriter write
seq_write(st, c) ==
    IF c.m = "" \/ ~c.fields
    THEN [st EXCEPT !.error = "ValueError"]
    ELSE seq_buffer_batch(st, c.m,
             RecordColumns([measurement |-> c.m, fields |-> c.fields,
                            tags |-> FALSE], st.bid + 1), 1)

\* BufferedWriter write_columnar
seq_write_columnar(st, c) ==
    IF c.names = {} THEN st
    ELSE LET columns == [col \in c.names |-> [k \in 1..c.n |-> Row(st.bid + 1, k)]]
         IN seq_buffer_batch(st, c.m, columns, num_records(columns))

\* BufferedWriter flush
seq_flush(st) == seq_flush_all(st)

\* BufferedWriter close
seq_close(st) ==
    IF st.w.closed THEN st
    ELSE LET st1 == seq_flush_all(st) IN
         IF st1.error # None THEN st1 ELSE [st1 EXCEPT !.w.closed = TRUE]

\* One call on BufferedWriter, from writer state w.
thread_call(w, c, clk, outs, bid) ==
    LET st == SeqState(w, clk, outs, bid) IN
    CASE c.op = "write" -> seq_write(st, c)
      [] c.op = "write_columnar" -> seq_write_columnar(st, c)
      [] c.op = "flush" -> seq_flush(st)
      [] c.op = "close" -> seq_close(st)

\* AsyncBufferedWriter._merge_columnar
async_merge_columnar(batches) ==
    IF Len(batches) = 0 THEN <<>>
    ELSE IF Len(batches) = 1 THEN batches[1]
    ELSE LET all_columns == UNION {DOMAIN batches[i] : i \in 1..Len(batches)}
         IN [col_name \in all_columns |->
                Concat([i \in 1..Len(batches) |->
                          IF col_name \in DOMAIN batches[i]
                          THEN batches[i][col_name] ELSE <<>>])]

\* Mutant of flush_measurement_unlocked: the flush time is set even when the
\* sink call raised.
flush_measurement_unlocked_sets_time(st, m) ==
    IF st.w.buffers[m] = <<>> THEN st
    ELSE LET merged == async_merge_columnar(Cols(st.w.buffers[m]))
             outcome == SeqSink(m, merged, Head(st.outs))
         IN [st EXCEPT
               !.w.buffers[m] = <<>>,
               !.w.record_counts[m] = 0,
               !.w.last_flush_time = Head(st.clk),
               !.clk = Tail(@),
               !.inv = Append(@, [measurement |-> m, columns |-> merged,
                                  bids |-> Bids(st.w.buffers[m])]),
               !.outs = Tail(@),
               !.error = outcome]

\* AsyncBufferedWriter _flush_measurement_unlocked
flush_measurement_unlocked(st, m) ==
    IF st.w.buffers[m] = <<>> THEN st
    ELSE LET merged == async_merge_columnar(Cols(st.w.buffers[m]))
             outcome == SeqSink(m, merged, Head(st.outs))
             st1 == [st EXCEPT
                       !.w.buffers[m] = <<>>,
                       !.w.record_counts[m] = 0,
                       !.inv = Append(@, [measurement |-> m, columns |-> merged,
                                          bids |-> Bids(st.w.buffers[m])]),
                       !.outs = Tail(@)]
         IN IF outcome # None
            THEN [st1 EXCEPT !.error = outcome]
            ELSE [st1 EXCEPT !.w.last_flush_time = Head(st.clk),
                             !.clk = Tail(@)]

\* AsyncBufferedWriter _flush_all_unlocked: the loop over list(self._buffers.keys()),
\* left by the first exception.
RECURSIVE flush_all_unlocked_loop(_, _)
flush_all_unlocked_loop(st, measurements) ==
    IF measurements = <<>> \/ st.error # None THEN st
    ELSE LET measurement == Head(measurements)
             st1 == IF st.w.buffers[measurement] # <<>>
                    THEN flush_measurement_unlocked(st, measurement)
                    ELSE st
         IN flush_all_unlocked_loop(st1, Tail(measurements))

flush_all_unlocked(st) == flush_all_unlocked_loop(st, st.w.keys)

\* AsyncBufferedWriter: the with block of write / write_columnar for a batch of
\* the given columns, counted as n rows.
async_buffer_batch(st, m, columns, n) ==
    LET st1 == [st EXCEPT
                  !.w.buffers[m] = Append(@, [bid |-> st.bid + 1, cols |-> columns]),
                  !.w.keys = IF m \in Range(@) THEN @ ELSE Append(@, m),
                  !.w.record_counts[m] = @ + n,
                  !.bid = @ + 1]
        st2 == IF st1.w.record_counts[m] >= batch_size
               THEN flush_measurement_unlocked(st1, m)
               ELSE st1
    IN IF st2.error # None THEN st2
       ELSE LET st3 == [st2 EXCEPT !.clk = Tail(@)] IN
            IF Head(st2.clk) - st2.w.last_flush_time >= flush_interval
            THEN flush_all_unlocked(st3)
            ELSE st3

\* AsyncBufferedWriter write
async_write(st, c) ==
    IF c.m = "" \/ ~c.fields
    THEN [st EXCEPT !.error = "ValueError"]
    ELSE async_buffer_batch(st, c.m,
             RecordColumns([measurement |-> c.m, fields |-> c.fields,
                            tags |-> FALSE], st.bid + 1), 1)

\* AsyncBufferedWriter write_columnar
async_write_columnar(st, c) ==
    IF c.names = {} THEN st
    ELSE LET columns == [col \in c.names |-> [k \in 1..c.n |-> Row(st.bid + 1, k)]]
         IN async_buffer_batch(st, c.m, columns, num_records(columns))

\* AsyncBufferedWriter flush
async_flush(st) == flush_all_unlocked(st)

\* AsyncBufferedWriter close
async_close(st) ==
    IF st.w.closed THEN st
    ELSE LET st1 == flush_all_unlocked(st) IN
         IF st1.error # None THEN st1 ELSE [st1 EXCEPT !.w.closed = TRUE]

\* One call on AsyncBufferedWriter, from writer state w.
async_call(w, c, clk, outs, bid) ==
    LET st == SeqState(w, clk, outs, bid) IN
    CASE c.op = "write" -> async_write(st, c)
      [] c.op = "write_columnar" -> async_write_columnar(st, c)
      [] c.op = "flush" -> async_flush(st)
      [] c.op = "close" -> async_close(st)

\* The batches sent for measurement m by the invocations inv, one entry per
\* invocation.
RECURSIVE Flushed(_, _)
Flushed(inv, m) ==
    IF inv = <<>> THEN <<>>
    ELSE (IF Head(inv).measurement = m THEN <<Head(inv).bids>> ELSE <<>>)
         \o Flushed(Tail(inv), m)

\* A BufferedWriter call runs from start to end: the writer, the clock and
\* the record of sink invocations move to where the call leaves them.
seq_call(c, clk, outs) ==
    LET r == thread_call(Writer, c, clk, outs, nextBid) IN
    /\ \A t \in Producers : pc[t] = "idle"
    /\ c.op \in {"write", "write_columnar"} => nextBid < MaxBatches
    /\ buffers' = r.w.buffers
    /\ record_counts' = r.w.record_counts
    /\ keys' = r.w.keys
    /\ last_flush_time' = r.w.last_flush_time
    /\ closed' = r.w.closed
    /\ nextBid' = r.bid
    /\ now' = clk[MaxReads]
    /\ sent' = [m \in Measurements |->
                  sent[m] \o Flushed(r.inv, m)]
    /\ last' = IF r.error = None THEN "ok" ELSE r.error
    /\ raised' = IF r.error \in SinkErrors \cup {"ArcValidationError"}
                 THEN r.error ELSE None
    /\ result' = -1
    /\ UNCHANGED <<lock, pc, call, variant, batch_size, flush_interval>>

NextSeq ==
    \E c \in SeqCalls, clk \in ClockReadings(now), outs \in SinkOutcomes :
        seq_call(c, clk, outs)

SpecSeq == Init /\ [][NextSeq]_vars

\* C18: BufferedWriter and AsyncBufferedWriter have the same semantics for
\* calls issued one after another: from every writer state reached by such
\* calls, every write, write_columnar, flush or close, with the same
\* thresholds, clock readings and sink outcomes, makes the same sink
\* invocations (measurement and merged columns), raises the same error and
\* leaves the same buffers, counts, flush time and closed flag in both.
C18_VariantsAgree ==
    \A c \in SeqCalls, clk \in ClockReadings(now), outs \in SinkOutcomes :
        thread_call(Writer, c, clk, outs, nextBid)
            = async_call(Writer, c, clk, outs, nextBid)

\* A call of a sequence has just ended with the sink's error: the batch of
\* one measurement went to the sink, rows of another are still pending.
C18_Witness ==
    /\ \A t \in Producers : pc[t] = "idle" /\ call[t] = IdleFrame
    /\ last \in SinkErrors
    /\ \E m, m2 \in Measurements :
         sent[m] # <<>> /\ buffers[m] = <<>> /\ buffers[m2] # <<>>

\* The batch numbers of the rows in the columns passed to a sink call.
BidsOf(merged) ==
    UNION {{r[1] : r \in Range(merged[c])} : c \in DOMAIN merged}

\* Producer t is inside the sink call of a flush of m.
InFlight(t, m) == pc[t] = "sink" /\ call[t].fm = m

\* C21: rows appended to m by another producer while a flush of m is in
\* flight are not merged into the in-flight sink invocation.  The appending
\* producer does not wait for the sink call: the lock its with block needs is
\* free while the sink call is in progress, and its write is a step that
\* leaves the flushing producer inside its sink call with the same columns
\* and the same batches; the new batch is pending after the
\* batches written since the clear and counted in the count of m, or it is
\* sent with them at once by the appending call's own trigger, as a later
\* invocation; and what is pending for m never holds a batch of an in-flight
\* invocation.
C21_InFlightFlushIsolated ==
    [][\A t \in Producers, m \in Measurements :
         /\ InFlight(t, m) => lock = None
         /\ (InFlight(t, m) /\ WroteTo(m)) =>
               /\ InFlight(t, m)'
               /\ call'[t].merged = call[t].merged
               /\ call'[t].inv = call[t].inv
               /\ sent'[m][call[t].inv] = sent[m][call[t].inv]
               /\ nextBid' \notin BidsOf(call'[t].merged)
               /\ \/ /\ Bids(buffers'[m]) = Append(PendingBids(m), nextBid')
                     /\ record_counts'[m] = record_counts[m] + NewRows(m)
                     /\ sent'[m] = sent[m]
                  \/ /\ buffers'[m] = <<>> /\ record_counts'[m] = 0
                     /\ sent'[m] = Append(sent[m], Append(PendingBids(m), nextBid'))
                     /\ Len(sent'[m]) > call[t].inv
         /\ InFlight(t, m)' =>
               /\ BidsOf(call'[t].merged) \cap Range(PendingBids(m)') = {}
               /\ \A b \in Range(PendingBids(m)'), c \in BidsOf(call'[t].merged) :
                     c < b]_vars

\* A producer is inside the sink call of a flush of m while a batch written
\* to m since then is pending and counted, its writer back from the call.
C21_Witness ==
    \E t \in Producers, m \in Measurements :
        /\ InFlight(t, m) /\ last = "ok"
        /\ buffers[m] # <<>> /\ record_counts[m] > 0
        /\ Bids(buffers[m]) = <<nextBid>>
        /\ nextBid \notin BidsOf(call[t].merged)

\* ------------------------------------------------- one call, start to end
\* SpecCall: one BufferedWriter call on a writer drawn from the states it can
\* be in between calls, run from start to end with given clock readings and
\* sink outcomes.  The frame of the caller keeps, as history, the call, its
\* inputs and the measurements of its sink invocations in order.
Caller == CHOOSE t \in Producers : TRUE

\* The orders in which the measurements written so far were first written.
KeyOrders ==
    {ks \in UNION {[1..n -> Measurements] : n \in 0..Cardinality(Measurements)} :
        \A i, j \in 1..Len(ks) : i # j => ks[i] # ks[j]}

\* No batch pending.
NoBatch == 0 - 1

\* The position of measurement m in the key order ks.
KeyIndex(ks, m) == CHOOSE i \in 1..Len(ks) : ks[i] = m

\* write_columnar(measurement, columns) also takes columns of length zero.
CallInputs ==
    {c \in SeqCalls : c.op # "write_columnar"}
    \cup [op : {"write_columnar"}, m : Measurements, fields : {FALSE},
          names : ColumnSets, n : 0..MaxRows]

\* Between calls every count is below batch_size (the size check flushed the
\* measurement otherwise), and with flush_interval = 0 nothing is pending
\* (every write flushed everything).  rows[m] is the length of the one
\* write_columnar batch pending for m, NoBatch for none.
InitCall ==
    /\ batch_size \in BatchSizes
    /\ flush_interval \in FlushIntervals
    /\ keys \in KeyOrders
    /\ \E rows \in [Measurements -> NoBatch..MaxRows] :
          /\ \A m \in Measurements :
                /\ rows[m] < batch_size
                /\ rows[m] # NoBatch => (m \in Range(keys) /\ flush_interval > 0)
          /\ buffers = [m \in Measurements |->
                          IF rows[m] = NoBatch THEN <<>>
                          ELSE <<MergeBatch([names |-> {"time", "usage"},
                                             rows |-> rows[m]],
                                            KeyIndex(keys, m))>>]
          /\ record_counts = [m \in Measurements |->
                                IF rows[m] = NoBatch THEN 0 ELSE rows[m]]
    /\ nextBid = Len(keys)
    /\ now = 0
    /\ last_flush_time = 0
    /\ lock = None
    /\ closed = FALSE
    /\ pc = [t \in Producers |-> "idle"]
    /\ call = [t \in Producers |-> IdleFrame]
    /\ sent = [m \in Measurements |-> <<>>]
    /\ raised = None
    /\ last = None
    /\ variant = "thread"
    /\ result = -1

\* The measurements of a sequence of sink invocations.
InvOrder(inv) == [i \in 1..Len(inv) |-> inv[i].measurement]

\* The call c runs from start to end.
one_call(c, clk, outs) ==
    LET r == thread_call(Writer, c, clk, outs, nextBid) IN
    /\ \A t \in Producers : pc[t] = "idle" /\ call[t].op = None
    /\ buffers' = r.w.buffers
    /\ record_counts' = r.w.record_counts
    /\ keys' = r.w.keys
    /\ last_flush_time' = r.w.last_flush_time
    /\ closed' = r.w.closed
    /\ nextBid' = r.bid
    /\ now' = clk[MaxReads]
    /\ sent' = [m \in Measurements |-> sent[m] \o Flushed(r.inv, m)]
    /\ last' = IF r.error = None THEN "ok" ELSE r.error
    /\ raised' = IF r.error \in SinkErrors \cup {"ArcValidationError"}
                 THEN r.error ELSE None
    /\ result' = -1
    /\ call' = [call EXCEPT
                  ![Caller] = [IdleFrame EXCEPT
                                 !.op = c.op,
                                 !.arg = [m |-> c.m,
                                          names |-> IF c.op = "write"
                                                    THEN {"time"} \cup
                                                         (IF c.fields THEN {"usage"} ELSE {})
                                                    ELSE c.names,
                                          n |-> c.n],
                                 !.todo = InvOrder(r.inv),
                                 !.clk = clk,
                                 !.outs = outs]]
    /\ UNCHANGED <<lock, pc, variant, batch_size, flush_interval>>

NextCall ==
    \E c \in CallInputs, clk \in ClockReadings(now), outs \in SinkOutcomes :
        one_call(c, clk, outs)

SpecCall == InitCall /\ [][NextCall]_vars

\* The call of SpecCall is made in this step.
Called == call[Caller].op = None /\ call'[Caller].op # None

\* The call made buffered a batch (write / write_columnar past validation).
Buffered == nextBid' = nextBid + 1

\* The measurement written by the call and the rows it was counted with.
Written == call'[Caller].arg.m
WrittenRows ==
    IF call'[Caller].op = "write" THEN 1 ELSE call'[Caller].arg.n

\* The measurements of ks that are in S, in the order of ks.
RECURSIVE Keep(_, _)
Keep(ks, S) ==
    IF ks = <<>> THEN <<>>
    ELSE (IF Head(ks) \in S THEN <<Head(ks)>> ELSE <<>>) \o Keep(Tail(ks), S)

\* The measurements of ms for which the sink is called when they are flushed
\* one after another and the sink calls end as outs: up to the first failure.
RECURSIVE SentUntilFailure(_, _)
SentUntilFailure(ms, outs) ==
    IF ms = <<>> THEN <<>>
    ELSE IF Head(outs) # None THEN <<Head(ms)>>
    ELSE <<Head(ms)>> \o SentUntilFailure(Tail(ms), Tail(outs))

\* The size trigger of the call fires: the count reaches batch_size.
SizeFires == Buffered /\ record_counts[Written] + WrittenRows >= batch_size

\* C22: after write / write_columnar has buffered its batch the size check
\* runs first and the time check second.  When the size trigger fires the
\* first sink invocation is for the measurement just written, whatever the
\* clock says and wherever the measurement stands in the key order; when it
\* succeeded and the time check then fires too, the sink next receives the
\* other measurements that have pending batches, in key order, up to the
\* first failure; the measurement just written is sent once only.  When the
\* time check does not fire the size-triggered invocation is the only one.
C22_SizeCheckThenTimeCheck ==
    [][(Called /\ SizeFires) =>
         LET fr == call'[Caller]
             others == Keep(keys', {k \in Measurements :
                                      k # Written /\ buffers[k] # <<>>})
             timeFires == /\ fr.outs[1] = None
                          /\ fr.clk[2] - fr.clk[1] >= flush_interval
         IN /\ fr.todo # <<>> /\ fr.todo[1] = Written
            /\ Count(fr.todo, Written) = 1
            /\ timeFires => Tail(fr.todo) = SentUntilFailure(others, Tail(fr.outs))
            /\ ~timeFires => fr.todo = <<Written>>]_vars

\* A write fired both triggers: the measurement just written went to the sink
\* first, then the measurement that was pending, which is first in key order.
C22_Witness ==
    /\ call[Caller].op \in {"write", "write_columnar"}
    /\ Len(call[Caller].todo) = 2
    /\ call[Caller].todo[1] = call[Caller].arg.m
    /\ call[Caller].todo[2] = keys[1]
    /\ flush_interval > 0 /\ last = "ok"

\* The count of m at the moment the call's flush-all runs: with the rows of
\* the batch the call has just buffered.
CountAtFlush(m) ==
    record_counts[m] + (IF Buffered /\ m = Written THEN WrittenRows ELSE 0)

\* The call runs a flush-all right away: flush(), close(), or a write /
\* write_columnar whose size trigger does not fire and whose time check does.
FlushAllRuns ==
    \/ call'[Caller].op \in {"flush", "close"}
    \/ /\ Buffered /\ ~SizeFires
       /\ call'[Caller].clk[1] - last_flush_time >= flush_interval

\* No sink call of the call fails.
SinkSucceeds == \A i \in DOMAIN call'[Caller].outs : call'[Caller].outs[i] = None

\* C23 (as claimed): a flush-all whose sink calls succeed invokes the sink for
\* exactly the measurements whose pending count is nonzero at that moment.
C23_FlushAllSendsNonzeroCounts ==
    [][(Called /\ FlushAllRuns /\ SinkSucceeds) =>
         Range(call'[Caller].todo)
            = {m \in Measurements : CountAtFlush(m) # 0}]_vars

\* The sink call of producer t ends in this step.
SinkCallEnds(t) == pc[t] = "sink" /\ Stepped(t)

\* C24 (as claimed): last_flush_time is set to the current monotonic time
\* each time the batches of a measurement have been handed to the sink, and
\* nothing else changes it.
C24_FlushTimeSetOnEveryFlush ==
    [][/\ \A t \in Producers : SinkCallEnds(t) => last_flush_time' = now
       /\ last_flush_time' # last_flush_time =>
             \E t \in Producers : SinkCallEnds(t)]_vars

\* C24 (amended): the one last_flush_time is set to the current monotonic
\* time each time a sink call returns, whatever the measurement and whichever
\* trigger, flush() or close() made the call; a sink call that raises leaves
\* it as it was, and so does every step that is not the end of a sink call.
C24_FlushTimeSetOnSuccessfulFlush ==
    [][/\ \A t \in Producers :
            SinkCallEnds(t) =>
               last_flush_time' = IF raised' = None THEN now ELSE last_flush_time
       /\ last_flush_time' # last_flush_time =>
             \E t \in Producers : SinkCallEnds(t) /\ raised' = None]_vars

\* Both measurements have been sent, the last flush time is the current time
\* and the clock has advanced since the writer was made; a sink call has just
\* failed and left the flush time alone.
C24_Witness ==
    /\ \A m \in Measurements : sent[m] # <<>>
    /\ last_flush_time = now /\ now > 0
    /\ raised \in SinkErrors

\* C25: the size trigger bounds the rows buffered per measurement: with
\* batch_size >= 1, in every state in which no producer holds the lock the
\* count of every measurement is below batch_size, for any interleaving of
\* the calls and any sink outcomes.
C25_CountBelowBatchSize ==
    (batch_size >= 1 /\ lock = None) =>
        \A m \in Measurements : record_counts[m] < batch_size

\* The lock is free, a measurement that the size trigger has flushed holds
\* batch_size - 1 rows again, and its flush is still in the sink call.
C25_Witness ==
    /\ lock = None
    /\ \E m \in Measurements, t \in Producers :
          /\ record_counts[m] = batch_size - 1 /\ buffers[m] # <<>>
          /\ pc[t] = "sink" /\ call[t].fm = m /\ call[t].cont = "time_check"

\* The time check of a call whose size trigger fired fires too: the size
\* flush returned and the interval has passed since the time it then set.
TimeFiresAfterSize ==
    /\ call'[Caller].outs[1] = None
    /\ call'[Caller].clk[2] - call'[Caller].clk[1] >= flush_interval

\* C26: a size-triggered flush affects only the measurement just written:
\* when write / write_columnar brings the count of m to batch_size and the
\* time trigger does not fire, the buffer and the count of every other
\* measurement are left as they were and the sink is not invoked for it;
\* the buffer and count of m are emptied.
C26_SizeFlushOnlyWrittenMeasurement ==
    [][(Called /\ SizeFires /\ ~TimeFiresAfterSize) =>
         /\ \A m2 \in Measurements \ {Written} :
               /\ buffers'[m2] = buffers[m2]
               /\ record_counts'[m2] = record_counts[m2]
               /\ sent'[m2] = sent[m2]
               /\ m2 \notin Range(call'[Caller].todo)
         /\ buffers'[Written] = <<>> /\ record_counts'[Written] = 0
         /\ Len(sent'[Written]) = Len(sent[Written]) + 1]_vars

\* A write_columnar reached batch_size and returned after the one sink
\* invocation for its measurement; the rows of the other measurement, first
\* in key order, are still pending and were never sent.
C26_Witness ==
    /\ call[Caller].op = "write_columnar" /\ last = "ok"
    /\ call[Caller].todo = <<call[Caller].arg.m>>
    /\ Len(keys) = 2 /\ keys[1] # call[Caller].arg.m
    /\ record_counts[keys[1]] > 0 /\ buffers[keys[1]] # <<>>
    /\ sent[keys[1]] = <<>>
    /\ record_counts[call[Caller].arg.m] = 0

\* Batch b is part of a sink invocation that is still in progress.
InProgress(b) ==
    \E u \in Producers :
        pc[u] = "sink" /\ b \in Range(sent[call[u].fm][call[u].inv])

\* The sink invocation that carries batch b has completed.
Delivered(b) == TimesSent(b) = 1 /\ ~InProgress(b)

\* C27 (as claimed), for a flush() that takes the lock and returns in one
\* step because nothing is pending: when it returns normally, every batch
\* buffered before the call started has been delivered, its sink invocation
\* completed, also when another producer is flushing at that time.
C27_FlushReturnsAfterDelivery ==
    [][\A t \in Producers :
         (flush(t) /\ pc'[t] = "idle" /\ last' = "ok") =>
            \A b \in 1..nextBid : Delivered(b)']_vars

\* C28 (as claimed): once close() has returned successfully the writer holds
\* no rows: in every state closed implies pending_count = 0.
C28_ClosedHoldsNoRows == closed => pending_count = 0

\* The measurements whose buffer is not empty when the call's flush-all
\* runs, in key order: those with batches pending before the call and the
\* one the call has just written.
PendingAtFlush ==
    Keep(keys', {k \in Measurements :
                    buffers[k] # <<>> \/ (Buffered /\ k = Written)})

\* A sink call of the call's flush-all fails.
FlushAllFails ==
    /\ FlushAllRuns
    /\ \E i \in 1..Len(PendingAtFlush) : call'[Caller].outs[i] # None

\* The measurements that the failed flush-all had not sent yet.
KeptBack ==
    SubSeq(PendingAtFlush, Len(call'[Caller].todo) + 1, Len(PendingAtFlush))

\* What a flush() with a succeeding sink does to the writer as the call
\* leaves it.
LaterFlush ==
    thread_call(Writer', [op |-> "flush", m |-> "", fields |-> FALSE,
                          names |-> {}, n |-> 0],
                [i \in 1..MaxReads |-> now'],
                [i \in 1..MaxSinkCalls |-> None], nextBid')

\* C29: when the sink fails for one measurement during a flush-all (flush(),
\* time trigger or close) the flush stops there and the call raises that
\* error: the sink was invoked for the measurements up to the failing one and
\* for no other; every measurement not yet sent keeps its batches and its
\* count, and a later flush() sends exactly those measurements, with their
\* batches, and empties them.
C29_FlushAllStopsAtFailure ==
    [][(Called /\ FlushAllFails) =>
         LET fr == call'[Caller] IN
         /\ fr.todo = SentUntilFailure(PendingAtFlush, fr.outs)
         /\ fr.outs[Len(fr.todo)] # None /\ last' = fr.outs[Len(fr.todo)]
         /\ \A m \in Range(KeptBack) :
               /\ Bids(buffers'[m]) =
                     Bids(buffers[m]) \o (IF Buffered /\ m = Written
                                          THEN <<nextBid'>> ELSE <<>>)
               /\ record_counts'[m] = CountAtFlush(m)
               /\ sent'[m] = sent[m]
         /\ InvOrder(LaterFlush.inv) = KeptBack
         /\ \A i \in 1..Len(KeptBack) :
               LaterFlush.inv[i].bids = Bids(buffers'[KeptBack[i]])
         /\ \A m \in Measurements : LaterFlush.w.buffers[m] = <<>>]_vars

\* A flush() on two measurements with pending rows has just raised the error
\* of the sink call for the first; the second was not sent and still holds
\* its rows.
C29_Witness ==
    /\ call[Caller].op = "flush"
    /\ Len(keys) = 2 /\ call[Caller].todo = <<keys[1]>>
    /\ call[Caller].outs[1] \in SinkErrors /\ last = call[Caller].outs[1]
    /\ sent[keys[1]] # <<>> /\ buffers[keys[1]] = <<>>
    /\ sent[keys[2]] = <<>> /\ record_counts[keys[2]] > 0

\* ------------------------------------------------------ calls terminate
\* SpecLockFair: SpecLock with the scheduling the calls rely on.  A producer
\* that holds the lock and is running takes its next step.  Every sink call
\* eventually returns or raises.  A producer waiting for the lock gets it if
\* the lock is free again and again: asyncio.Lock wakes its waiters in FIFO
\* order, and a thread blocked in threading.Lock.acquire is woken by a
\* release.
MaxLiveBatches == 1

\* The steps of SpecLock in which at most MaxLiveBatches write /
\* write_columnar calls have started, each with one row: the interval 0
\* fires the time trigger on every write, and a second row for a measurement
\* fires the size trigger.
NextLockFair ==
    /\ NextLock
    /\ BatchesIssued' <= MaxLiveBatches
    /\ \A t \in Producers : call'[t].arg.n <= 1

SpecLockFair ==
    /\ InitLock /\ [][NextLockFair]_vars
    /\ \A t \in Producers :
         /\ WF_vars(lk_append(t) \/ lk_count(t) \/ lk_flush_all(t) \/ lk_resume(t))
         /\ SF_vars(\E error \in {None} \cup SinkErrors : lk_sink_done(t, error))
         /\ SF_vars(lk_acquire(t))

\* No call is in progress.
AllIdle == \A t \in Producers : pc[t] = "idle"

====
